---------------------------- MODULE Spec2Model ----------------------------
(***************************************************************************)
(* A model of the electrolyzer fleet simulation:                           *)
(*   - Stack (src/electrolyzer/stack.py): operating mode, startup delay,   *)
(*     degradation accumulators, hourly fatigue evaluation;                *)
(*   - ElectrolyzerSupervisor (src/electrolyzer/electrolyzer_supervisor.py)*)
(*     : the seven power-allocation policies, the health ranking and the   *)
(*     reconciliation of the controller's belief with the stacks' modes.   *)
(*                                                                         *)
(* Units.  Time is counted in units of 300 s, so the 600 s startup delay   *)
(* is 2 and an hour is 12.  Power is counted in units in which a stack is  *)
(* rated 240, and the power inputs drawn are multiples of 12, so that      *)
(* every division the policies perform is exact.  Voltages are small       *)
(* integers; the 5% fatigue threshold is compared by cross-multiplication. *)
(***************************************************************************)
EXTENDS Integers, Sequences, FiniteSets, TLC

(***************************************************************************)
(* Bounds of the model.                                                    *)
(***************************************************************************)
\* number of stacks of the fleet (electrolyzer_dict["n_stacks"])
NStacks == 3
\* control() calls explored per fleet behaviour
MaxCalls == 3
\* control() calls explored per behaviour of a rotation policy
MaxRotationCalls == 5
\* run() steps explored per single-stack behaviour
MaxSteps == 5
\* turn_stack_off calls that take effect, per single-stack behaviour
MaxCycles == 2

(***************************************************************************)
(* Program constants.                                                      *)
(***************************************************************************)
\* stack.py:115  base_turn_on_delay = 600 s, in units of 300 s
base_turn_on_delay == 2
\* stack.py:302  self.time // 3600, in units of 300 s
HourLength == 12
\* electrolyzer_supervisor.py:71  round(1200 / dt): 1200 s in units of 300 s
FilterSpan == 4
\* electrolyzer_supervisor.py:22  stack_min_power = (10 / 100) * rating
MinPowerPercent == 10

Min(a, b) == IF a <= b THEN a ELSE b
Max(a, b) == IF a >= b THEN a ELSE b

RECURSIVE SeqMax(_)
SeqMax(s) == IF Len(s) = 1 THEN s[1] ELSE Max(s[1], SeqMax(Tail(s)))
RECURSIVE SeqMin(_)
SeqMin(s) == IF Len(s) = 1 THEN s[1] ELSE Min(s[1], SeqMin(Tail(s)))

\* voltage_signal[np.nonzero(voltage_signal)]
NonZero(sig) == SelectSeq(sig, LAMBDA v : v # 0)

(***************************************************************************)
(* The cell model is an external collaborator (PEM_cell / alkaline_cell,   *)
(* not part of the modelled files).  What the stack needs of it:           *)
(*   - the current drawn at a requested power (the fitted                   *)
(*     electrolyzer_model), counted here in units in which a stack fed P   *)
(*     draws the nominal current P;                                        *)
(*   - the cell voltage at that current: positive, non-decreasing.         *)
(***************************************************************************)
OpenCircuitVoltage == 20
VoltageStep == 40

electrolyzer_model(P_in) == P_in

calc_cell_voltage(I_stack) == OpenCircuitVoltage + (I_stack \div VoltageStep)

\* rainflow.count_cycles is an external library: the sum over its
\* (range, count) pairs is a non-negative number, here one of these.
RainflowSums == {0, 3}

(***************************************************************************)
(* Stack                                                                   *)
(***************************************************************************)
\* __attrs_post_init__: the delay is removed for large time steps
TurnOnDelay(dt) == IF dt > 2 * base_turn_on_delay THEN 0 ELSE base_turn_on_delay

\* the state of a Stack after construction
NewStack(dt, rates, h2pen, inclpen) ==
    [ dt |-> dt,
      rate_steady |-> rates.steady,
      rate_fatigue |-> rates.fatigue,
      rate_onoff |-> rates.onoff,
      hydrogen_degradation_penalty |-> h2pen,
      include_degradation_penalty |-> inclpen,
      turn_on_delay |-> TurnOnDelay(dt),
      uptime |-> 0,
      cell_voltage |-> 0,
      d_s |-> 0,
      rf_track |-> 0,
      fatigue_history |-> 0,
      hourly_counter |-> 0,
      hour_change |-> FALSE,
      voltage_signal |-> << >>,
      voltage_history |-> << >>,
      d_f |-> 0,
      cycle_count |-> 0,
      d_o |-> 0,
      V_degradation |-> 0,
      I |-> 0,
      stack_on |-> FALSE,
      stack_waiting |-> FALSE,
      turn_on_time |-> 0,
      turn_off_time |-> 0 - TurnOnDelay(dt),
      wait_time |-> Min(0 - (0 - TurnOnDelay(dt)), TurnOnDelay(dt)),
      time |-> 0,
      \* observation: did the last run() execute the hourly fatigue block
      fatigue_evaluated |-> FALSE ]

\* update_status that waits until the delay is strictly exceeded
update_status_Strict(s) ==
    IF s.stack_on THEN s
    ELSE IF s.stack_waiting /\ (s.turn_on_time + s.wait_time) < s.time
         THEN [s EXCEPT !.stack_waiting = FALSE, !.stack_on = TRUE]
         ELSE s

\* Stack.update_status
update_status(s) ==
    IF s.stack_on THEN s
    ELSE IF s.stack_waiting /\ (s.turn_on_time + s.wait_time) <= s.time
         THEN [s EXCEPT !.stack_waiting = FALSE, !.stack_on = TRUE]
         ELSE s

\* turn_stack_off that forgets to reduce the wait-time credit
turn_stack_off_KeepWait(s) ==
    IF s.stack_on \/ s.stack_waiting
    THEN [s EXCEPT !.turn_off_time = s.time,
                   !.stack_on = FALSE,
                   !.stack_waiting = FALSE,
                   !.cycle_count = s.cycle_count + 1]
    ELSE s

\* turn_stack_off that counts a cycle whatever the mode of the stack
turn_stack_off_AlwaysCounts(s) ==
    IF s.stack_on \/ s.stack_waiting
    THEN [s EXCEPT !.turn_off_time = s.time,
                   !.stack_on = FALSE,
                   !.stack_waiting = FALSE,
                   !.cycle_count = s.cycle_count + 1,
                   !.wait_time = Max(0, s.wait_time - (s.time - s.turn_on_time))]
    ELSE [s EXCEPT !.cycle_count = s.cycle_count + 1]

\* Stack.turn_stack_off
turn_stack_off(s) ==
    IF s.stack_on \/ s.stack_waiting
    THEN [s EXCEPT !.turn_off_time = s.time,
                   !.stack_on = FALSE,
                   !.stack_waiting = FALSE,
                   !.cycle_count = s.cycle_count + 1,
                   !.wait_time = Max(0, s.wait_time - (s.time - s.turn_on_time))]
    ELSE s

\* turn_stack_on that always imposes the full startup delay
turn_stack_on_FullDelay(s) ==
    IF s.stack_on THEN s
    ELSE LET t_on == IF ~s.stack_waiting THEN s.time ELSE s.turn_on_time
         IN  [s EXCEPT !.turn_on_time = t_on,
                       !.stack_waiting = TRUE,
                       !.wait_time = s.turn_on_delay]

\* turn_stack_on without the early return for an On stack
turn_stack_on_NoOnGuard(s) ==
    LET t_on == IF ~s.stack_waiting THEN s.time ELSE s.turn_on_time
    IN  [s EXCEPT !.turn_on_time = t_on,
                  !.stack_waiting = TRUE,
                  !.wait_time = Min(s.wait_time + (t_on - s.turn_off_time),
                                    s.turn_on_delay)]

\* turn_stack_on that does not cap the wait at the startup delay
turn_stack_on_NoCap(s) ==
    IF s.stack_on THEN s
    ELSE LET t_on == IF ~s.stack_waiting THEN s.time ELSE s.turn_on_time
         IN  [s EXCEPT !.turn_on_time = t_on,
                       !.stack_waiting = TRUE,
                       !.wait_time = s.wait_time + (t_on - s.turn_off_time)]

\* Stack.turn_stack_on
turn_stack_on(s) ==
    IF s.stack_on THEN s
    ELSE LET t_on == IF ~s.stack_waiting THEN s.time ELSE s.turn_on_time
         IN  [s EXCEPT !.turn_on_time = t_on,
                       !.stack_waiting = TRUE,
                       !.wait_time = Min(s.wait_time + (t_on - s.turn_off_time),
                                         s.turn_on_delay)]

\* calc_steady_degradation that does not accumulate
calc_steady_degradation_NoSum(s) == s.rate_steady * s.cell_voltage * s.dt

\* Stack.calc_steady_degradation: uses the cell voltage recorded by the
\* previous step
calc_steady_degradation(s) == s.d_s + s.rate_steady * s.cell_voltage * s.dt

\* calc_onoff_degradation charging one unit per cycle whatever the rate
calc_onoff_degradation_UnitRate(s) == s.cycle_count

\* Stack.calc_onoff_degradation
calc_onoff_degradation(s) == s.rate_onoff * s.cycle_count

\* the guard of the hourly fatigue block of update_degradation:
\* more than 5% peak-to-peak variation among the nonzero samples
FatiguePenalised(sig) ==
    LET nz == NonZero(sig)
    IN  /\ Len(nz) > 0
        /\ 100 * (SeqMax(nz) - SeqMin(nz)) > 5 * SeqMax(nz)

\* Stack.update_degradation, rf_sum being the result of the rainflow count
\* (read only when the fatigue block calls calc_fatigue_degradation)
update_degradation(s, rf_sum) ==
    LET penal == s.hour_change /\ FatiguePenalised(s.voltage_signal)
        rf    == IF penal THEN s.rf_track + rf_sum ELSE s.rf_track
        fh    == IF penal THEN s.rate_fatigue * rf ELSE s.fatigue_history
        ds    == calc_steady_degradation(s)
        do    == calc_onoff_degradation(s)
    IN  [s EXCEPT !.rf_track = rf,
                  !.fatigue_history = fh,
                  !.d_f = fh,
                  !.d_s = ds,
                  !.d_o = do,
                  !.V_degradation = ds + do + fh,
                  !.fatigue_evaluated = s.hour_change]

\* the rainflow sums update_degradation can read in state s
RfChoices(s) ==
    IF s.hour_change /\ FatiguePenalised(s.voltage_signal)
    THEN RainflowSums ELSE {0}

\* run_h2_deg_penalty / run_power_deg_penalty: the stack current
StackCurrent(s, P_in) ==
    LET I_nom  == electrolyzer_model(P_in)
        V_cell == calc_cell_voltage(I_nom)
    IN  IF s.hydrogen_degradation_penalty
        THEN (I_nom * V_cell) \div (V_cell + s.V_degradation)
        ELSE I_nom

\* calc_stack_power(I_stack, V_cell) * 1e3 of an On stack fed P_in, the
\* fitted model being exact at zero degradation (I_nom * V_nom * n_cells
\* = P_in): the efficiency multiplier divides the current, the
\* degradation penalty adds to the voltage
PowerDrawn(s, P_in) ==
    LET V_nom == calc_cell_voltage(electrolyzer_model(P_in))
        V_deg == s.V_degradation
    IN  CASE s.hydrogen_degradation_penalty /\ s.include_degradation_penalty
               -> P_in
          [] s.hydrogen_degradation_penalty /\ ~s.include_degradation_penalty
               -> (P_in * V_nom) \div (V_nom + V_deg)
          [] ~s.hydrogen_degradation_penalty /\ s.include_degradation_penalty
               -> (P_in * (V_nom + V_deg)) \div V_nom
          [] OTHER -> P_in

\* the hour bookkeeping that ends run_stack
EndOfStep(s, V_cell) ==
    LET t    == s.time + s.dt
        hc   == t \div HourLength
        hist == Append(s.voltage_history, V_cell)
    IN  [s EXCEPT !.cell_voltage = V_cell,
                  !.time = t,
                  !.hourly_counter = hc,
                  !.hour_change = (s.hourly_counter # hc),
                  !.voltage_signal =
                      IF s.hourly_counter # hc THEN hist ELSE s.voltage_signal,
                  !.voltage_history =
                      IF s.hourly_counter # hc THEN << >> ELSE hist]

\* run() that also counts an Off step as uptime
run_OffCountsUptime(s0, P_in, rf_sum) ==
    LET s      == update_status(s0)
        I_st   == StackCurrent(s, P_in)
        V_nom  == calc_cell_voltage(electrolyzer_model(P_in))
    IN  IF s.stack_on
        THEN LET V_cell == IF s.include_degradation_penalty
                           THEN V_nom + s.V_degradation ELSE V_nom
                 s1 == update_degradation([s EXCEPT !.I = I_st], rf_sum)
                 s2 == [s1 EXCEPT !.uptime = s.uptime + s.dt]
             IN  [stack |-> EndOfStep(s2, V_cell),
                  power_left |-> P_in - PowerDrawn(s, P_in)]
        ELSE IF s.stack_waiting
        THEN LET s1 == [s EXCEPT !.uptime = s.uptime + s.dt, !.I = I_st]
                 s2 == update_degradation(s1, rf_sum)
             IN  [stack |-> EndOfStep(s2, V_nom), power_left |-> 0]
        ELSE [stack |-> EndOfStep([s EXCEPT !.fatigue_evaluated = FALSE,
                                            !.uptime = s.uptime + s.dt], 0),
              power_left |-> P_in]

\* Stack.run followed by Stack.run_stack: the stack after the step and the
\* power it reports as left
run(s0, P_in, rf_sum) ==
    LET s      == update_status(s0)
        I_st   == StackCurrent(s, P_in)
        V_nom  == calc_cell_voltage(electrolyzer_model(P_in))
    IN  IF s.stack_on
        THEN LET V_cell == IF s.include_degradation_penalty
                           THEN V_nom + s.V_degradation ELSE V_nom
                 s1 == update_degradation([s EXCEPT !.I = I_st], rf_sum)
                 s2 == [s1 EXCEPT !.uptime = s.uptime + s.dt]
             IN  [stack |-> EndOfStep(s2, V_cell),
                  power_left |-> P_in - PowerDrawn(s, P_in)]
        ELSE IF s.stack_waiting
        THEN LET s1 == [s EXCEPT !.uptime = s.uptime + s.dt, !.I = I_st]
                 s2 == update_degradation(s1, rf_sum)
             IN  [stack |-> EndOfStep(s2, V_nom), power_left |-> 0]
        ELSE [stack |-> EndOfStep([s EXCEPT !.fatigue_evaluated = FALSE], 0),
              power_left |-> P_in]

(***************************************************************************)
(* ElectrolyzerSupervisor                                                  *)
(***************************************************************************)
Idx == 0 .. NStacks - 1

\* a vector over the stacks with every entry computed once (a numpy array)
RECURSIVE VecTo(_, _)
VecTo(f, n) == IF n = 0 THEN (0 :> f[0]) ELSE VecTo(f, n - 1) @@ (n :> f[n])
Vec(f) == VecTo(f, NStacks - 1)

\* __init__: stack_rating, and stack_min_power = (10 / 100) * stack_rating
stack_rating == 240
stack_min_power == (MinPowerPercent * stack_rating) \div 100

\* 0 / 0 in numpy arithmetic
NaN == 0 - 999999
IsNaN(x) == x = NaN

RECURSIVE VecSumTo(_, _)
VecSumTo(v, n) == IF n < 0 THEN 0 ELSE v[n] + VecSumTo(v, n - 1)
\* sum(v) of a vector indexed by stack
VecSum(v) == VecSumTo(v, NStacks - 1)

\* np.ceil(a / b) and Python's round(a / b) (half to even), b > 0
CeilDiv(a, b) == 0 - ((0 - a) \div b)
RoundDiv(a, b) ==
    LET q == a \div b
        r == a % b
    IN  IF 2 * r < b THEN q
        ELSE IF 2 * r > b THEN q + 1
        ELSE IF q % 2 = 0 THEN q ELSE q + 1

\* np.argsort is called with its default kind, which numpy documents as
\* not stable: the order it leaves equal keys in is not specified.  A tie
\* order is an arrangement of the stack indices; equal keys come out in
\* that order.
TieOrders ==
    { p \in [1 .. NStacks -> Idx] :
        \A i, j \in 1 .. NStacks : i # j => p[i] # p[j] }
PosIn(tb, i) == CHOOSE k \in 1 .. NStacks : tb[k] = i

\* i comes before j in np.argsort(deg_state[...])
SortsBefore(deg, tb, i, j) ==
    deg[i] < deg[j] \/ (deg[i] = deg[j] /\ PosIn(tb, i) < PosIn(tb, j))
\* the position (from 0) of stack i in np.argsort of the stacks in cand
Rank(cand, deg, tb, i) ==
    Cardinality({ j \in cand : SortsBefore(deg, tb, j, i) })

\* ElectrolyzerSupervisor.get_healthiest_inactive
get_healthiest_inactive(active, deg_state, n_activate, tb) ==
    LET inact == { i \in Idx : active[i] - 1 # 0 }
    IN  [ i \in Idx |->
            IF i \in inact /\ Rank(inact, deg_state, tb, i) < n_activate
            THEN 1 ELSE 0 ]

\* ElectrolyzerSupervisor.get_illest_active: np.flip reverses the order
get_illest_active(active, deg_state, n_deactivate, tb) ==
    LET act == { i \in Idx : active[i] # 0 }
    IN  [ i \in Idx |->
            IF /\ i \in act
               /\ Cardinality(act) - 1 - Rank(act, deg_state, tb, i) < n_deactivate
            THEN 0 ELSE 1 ]

\* ElectrolyzerSupervisor.__init__ and create_electrolyzer_stacks
NewSupervisor(control_type, dt) ==
    [ control_type |-> control_type,
      dt |-> dt,
      active |-> [i \in Idx |-> 0],
      waiting |-> [i \in Idx |-> 0],
      active_constant |-> [i \in Idx |-> 0],
      variable_stack |-> {0},
      stack_rotation |-> [k \in 1 .. NStacks |-> k - 1],
      stacks_on |-> 0,
      stacks_waiting_vec |-> [i \in Idx |-> 0],
      deg_state |-> [i \in Idx |-> 0],
      filter_width |-> RoundDiv(FilterSpan, dt),
      past_power |-> <<0>> ]

\* what a policy hands back: the supervisor, the stacks, the allocation;
\* started lists the stacks turn_on_stack was called for, in call order
Alloc(S, st, P, fault) ==
    [sup |-> S, stacks |-> st, P |-> Vec(P), fault |-> fault, started |-> <<>>]

\* ElectrolyzerSupervisor.turn_on_stack
turn_on_stack(a, j) ==
    [a EXCEPT !.stacks[j] = turn_stack_on(a.stacks[j]),
              !.sup.waiting[j] = 1,
              !.started = Append(a.started, j)]

\* ElectrolyzerSupervisor.turn_off_stack
turn_off_stack(a, j) ==
    [a EXCEPT !.sup.active[j] = 0,
              !.sup.waiting[j] = 0,
              !.stacks[j] = turn_stack_off(a.stacks[j])]

\* the "while self.active[self.stack_rotation[ij]] > 0: ij += 1" search,
\* positions counted from 1; NStacks + 1 when it runs off the list
RECURSIVE FirstInactiveFrom(_, _)
FirstInactiveFrom(S, pos) ==
    IF pos > NStacks THEN pos
    ELSE IF S.active[S.stack_rotation[pos]] > 0
         THEN FirstInactiveFrom(S, pos + 1)
         ELSE pos

\* "for i in range(0, diff): ... self.turn_on_stack(self.stack_rotation[ij])"
RECURSIVE TurnOnLoop(_, _, _)
TurnOnLoop(a, i, diff) ==
    IF i >= diff \/ a.fault THEN a
    ELSE LET pos == FirstInactiveFrom(a.sup, i + 1)
         IN  IF pos > NStacks
             THEN [a EXCEPT !.fault = TRUE]
             ELSE TurnOnLoop(turn_on_stack(a, a.sup.stack_rotation[pos]),
                             i + 1, diff)

\* self.stack_rotation[1:] + [self.stack_rotation[0]]
Rotate(rot) == [k \in 1 .. NStacks |-> IF k < NStacks THEN rot[k + 1] ELSE rot[1]]

\* what the health-ranked policies do once n_active is known
SetActiveCount(S, n_active, tb) ==
    LET cur == VecSum(S.active)
    IN  IF n_active > cur
        THEN LET on == get_healthiest_inactive(S.active, S.deg_state,
                                               n_active - cur, tb)
             IN  Vec([i \in Idx |-> S.active[i] + on[i]])
        ELSE IF n_active < cur
        THEN LET keep == get_illest_active(S.active, S.deg_state,
                                           cur - n_active, tb)
             IN  Vec([i \in Idx |-> S.active[i] * keep[i]])
        ELSE S.active

\* the eager policy without the cap of the per-stack power at the rating
distribute_power_equal_eager_NoCap(S, st, power_in, tb) ==
    LET n_active == Min(NStacks, power_in \div stack_min_power)
        P_i == IF n_active > 0 THEN power_in \div n_active ELSE 0
        act == SetActiveCount(S, n_active, tb)
    IN  Alloc([S EXCEPT !.active = act], st, [i \in Idx |-> P_i * act[i]], FALSE)

\* the eager policy counting the stacks the input fills to their rating
distribute_power_equal_eager_AtRating(S, st, power_in, tb) ==
    LET n_active == Min(NStacks, CeilDiv(power_in, stack_rating))
        P_i == IF n_active > 0
               THEN Min(power_in \div n_active, stack_rating) ELSE 0
        act == SetActiveCount(S, n_active, tb)
    IN  Alloc([S EXCEPT !.active = act], st, [i \in Idx |-> P_i * act[i]], FALSE)

\* ElectrolyzerSupervisor.distribute_power_equal_eager
distribute_power_equal_eager(S, st, power_in, tb) ==
    LET n_active == Min(NStacks, power_in \div stack_min_power)
        P_i == IF n_active > 0
               THEN Min(power_in \div n_active, stack_rating) ELSE 0
        act == SetActiveCount(S, n_active, tb)
    IN  Alloc([S EXCEPT !.active = act], st, [i \in Idx |-> P_i * act[i]], FALSE)

\* the hesitant policy adding capacity as early as the eager one
distribute_power_equal_hesitant_Eager(S, st, power_in, tb) ==
    distribute_power_equal_eager(S, st, power_in, tb)

\* ElectrolyzerSupervisor.distribute_power_equal_hesitant
distribute_power_equal_hesitant(S, st, power_in, tb) ==
    LET n0 == VecSum(S.active)
        n_active ==
            IF power_in > stack_rating * n0 + stack_min_power
            THEN n0 + Min(CeilDiv(power_in - n0 * stack_rating, stack_rating),
                          NStacks - n0)
            ELSE IF power_in < stack_min_power * n0
            THEN n0 - (n0 - (power_in \div stack_min_power))
            ELSE n0
        P_i == IF n_active > 0
               THEN Min(power_in \div n_active, stack_rating) ELSE 0
        act == SetActiveCount(S, n_active, tb)
    IN  Alloc([S EXCEPT !.active = act], st, [i \in Idx |-> P_i * act[i]], FALSE)

\* the loop that ends baseline_controller: hand p_avail out in index order
RECURSIVE BaselineFill(_, _, _)
BaselineFill(P, p_avail, i) ==
    IF i >= NStacks THEN P
    ELSE IF p_avail >= stack_rating - stack_min_power
    THEN BaselineFill([P EXCEPT ![i] = P[i] + (stack_rating - stack_min_power)],
                      p_avail - (stack_rating - stack_min_power), i + 1)
    ELSE BaselineFill([P EXCEPT ![i] = P[i] + p_avail], 0, i + 1)

\* the baseline policy with the turn-off test against the rating instead
\* of the minimum power
baseline_controller_OffAtRating(S, st, power_in) ==
    LET n0 == VecSum(S.active)
        a  == IF power_in > n0 * stack_rating /\ power_in > stack_min_power
              THEN LET ind == Min(n0, NStacks - 1)
                   IN  [sup |-> [S EXCEPT !.active[ind] = 1],
                        stacks |-> [st EXCEPT ![ind] = turn_stack_on(st[ind])]]
              ELSE IF power_in < (n0 - 1) * stack_min_power
              THEN LET ind == n0 - 1
                   IN  [sup |-> [S EXCEPT !.active[ind] = 0],
                        stacks |-> [st EXCEPT ![ind] = turn_stack_off(st[ind])]]
              ELSE [sup |-> S, stacks |-> st]
        P0 == [i \in Idx |-> stack_min_power * a.sup.active[i]]
    IN  Alloc(a.sup, a.stacks, BaselineFill(P0, power_in - VecSum(P0), 0), FALSE)

\* the baseline policy switching off the first active stack instead of the
\* last one
baseline_controller_OffFirst(S, st, power_in) ==
    LET n0 == VecSum(S.active)
        a  == IF power_in > n0 * stack_rating /\ power_in > stack_min_power
              THEN LET ind == Min(n0, NStacks - 1)
                   IN  [sup |-> [S EXCEPT !.active[ind] = 1],
                        stacks |-> [st EXCEPT ![ind] = turn_stack_on(st[ind])]]
              ELSE IF power_in < n0 * stack_min_power
              THEN LET ind == 0
                   IN  [sup |-> [S EXCEPT !.active[ind] = 0],
                        stacks |-> [st EXCEPT ![ind] = turn_stack_off(st[ind])]]
              ELSE [sup |-> S, stacks |-> st]
        P0 == [i \in Idx |-> stack_min_power * a.sup.active[i]]
    IN  Alloc(a.sup, a.stacks, BaselineFill(P0, power_in - VecSum(P0), 0), FALSE)

\* ElectrolyzerSupervisor.baseline_controller
baseline_controller(S, st, power_in) ==
    LET n0 == VecSum(S.active)
        a  == IF power_in > n0 * stack_rating /\ power_in > stack_min_power
              THEN LET ind == Min(n0, NStacks - 1)
                   IN  [sup |-> [S EXCEPT !.active[ind] = 1],
                        stacks |-> [st EXCEPT ![ind] = turn_stack_on(st[ind])]]
              ELSE IF power_in < n0 * stack_min_power
              THEN LET ind == n0 - 1
                   IN  [sup |-> [S EXCEPT !.active[ind] = 0],
                        stacks |-> [st EXCEPT ![ind] = turn_stack_off(st[ind])]]
              ELSE [sup |-> S, stacks |-> st]
        P0 == [i \in Idx |-> stack_min_power * a.sup.active[i]]
    IN  Alloc(a.sup, a.stacks, BaselineFill(P0, power_in - VecSum(P0), 0), FALSE)

\* v with the entries of the stacks in set js set to x (v[js] = x)
SetAll(v, js, x) == [i \in Idx |-> IF i \in js THEN x ELSE v[i]]

\* the variable-stack power of the two sequential wear policies
VariableStackP(power_in, active_constant) ==
    LET p == Min(stack_rating, power_in - VecSum(active_constant) * stack_rating)
    IN  IF p < stack_min_power THEN 0 ELSE p

\* n_active of the two sequential wear policies
SequentialCount(power_in) ==
    Min(NStacks, CeilDiv(power_in - stack_min_power, stack_rating))

\* ElectrolyzerSupervisor.distribute_power_sequential_even_wear
distribute_power_sequential_even_wear(S, st, power_in, tb) ==
    LET n_active == SequentialCount(power_in)
        cur  == VecSum(S.active)
        diff == n_active - cur
        on   == get_healthiest_inactive(S.active, S.deg_state, diff, tb)
        onset == { i \in Idx : on[i] # 0 }
        off  == get_illest_active(S.active_constant, S.deg_state,
                                  IF diff < 0 THEN 0 - diff ELSE diff, tb)
        S1 == IF n_active > cur
              THEN IF onset = {}
                   THEN S
                   ELSE LET vs  == CHOOSE i \in onset : \A j \in onset : i <= j
                            act == [i \in Idx |-> S.active[i] + on[i]]
                        IN  [S EXCEPT !.variable_stack = {vs},
                                      !.active = act,
                                      !.active_constant = [act EXCEPT ![vs] = 0]]
              ELSE IF n_active < cur
              THEN LET vs == { i \in Idx : off[i] - 1 # 0 }
                   IN  [S EXCEPT !.active = SetAll(S.active, S.variable_stack, 0),
                                 !.variable_stack = vs,
                                 !.active_constant =
                                     SetAll(S.active_constant, vs, 0)]
              ELSE S
        P_var == VariableStackP(power_in, S1.active_constant)
        P == SetAll([i \in Idx |-> stack_rating * S1.active_constant[i]],
                    S1.variable_stack, P_var)
    IN  \* np.nonzero(stacks_to_turn_on)[0][0] of an empty result: IndexError
        Alloc(S1, st, P, n_active > cur /\ onset = {})

\* ElectrolyzerSupervisor.distribute_power_sequential_single_wear
distribute_power_sequential_single_wear(S, st, power_in, tb) ==
    LET n_active == SequentialCount(power_in)
        cur  == VecSum(S.active)
        diff == n_active - cur
        on   == get_healthiest_inactive(S.active, S.deg_state, diff, tb)
        off  == get_illest_active(S.active_constant, S.deg_state,
                                  IF diff < 0 THEN 0 - diff ELSE diff, tb)
        S1 == IF n_active > cur
              THEN LET act == [i \in Idx |-> S.active[i] + on[i]]
                   IN  [S EXCEPT !.variable_stack = {0},
                                 !.active = act,
                                 !.active_constant = [act EXCEPT ![0] = 0]]
              ELSE IF n_active < cur
              THEN [S EXCEPT !.active_constant =
                                 [i \in Idx |-> S.active_constant[i] * off[i]],
                             !.active = [i \in Idx |-> S.active[i] * off[i]]]
              ELSE S
        P_var == VariableStackP(power_in, S1.active_constant)
        P == SetAll([i \in Idx |-> stack_rating * S1.active_constant[i]],
                    S1.variable_stack, P_var)
    IN  Alloc(S1, st, P, FALSE)

\* sum(self.active + self.waiting)
ActivePlusWaiting(S) == VecSum(S.active) + VecSum(S.waiting)

\* ElectrolyzerSupervisor.power_sharing_rotation
power_sharing_rotation(S, st, power_in) ==
    LET cnt0   == ActivePlusWaiting(S)
        P_indv == IF cnt0 = 0 THEN power_in \div NStacks ELSE power_in \div cnt0
        stacks_supported == Min(power_in \div (stack_rating \div 2), NStacks)
        diff == stacks_supported - cnt0
        a0 == Alloc(S, st, [i \in Idx |-> 0], FALSE)
        a1 == IF /\ diff > 0
                 /\ (diff > 1 \/ 10 * P_indv > 8 * stack_rating)
                 /\ VecSum(S.waiting) = 0
                 /\ VecSum(S.active) # NStacks
              THEN TurnOnLoop(a0, 0, diff)
              ELSE a0
        a2 == IF /\ ~a1.fault
                 /\ diff < 0
                 /\ 10 * P_indv < 2 * stack_rating
                 /\ VecSum(a1.sup.active) > 0
              THEN LET b == turn_off_stack(a1, a1.sup.stack_rotation[1])
                   IN  [b EXCEPT !.sup.stack_rotation = Rotate(a1.sup.stack_rotation)]
              ELSE a1
        cnt == ActivePlusWaiting(a2.sup)
        \* power_in / 0 is inf for power_in > 0 (and inf exceeds the rating)
        \* and nan for power_in = 0 (and nan > rating is False)
        P == IF cnt = 0
             THEN IF power_in > 0 THEN [i \in Idx |-> stack_rating]
                                  ELSE [i \in Idx |-> NaN]
             ELSE [i \in Idx |-> Min(power_in \div cnt, stack_rating)]
    IN  IF a2.fault THEN a2 ELSE [a2 EXCEPT !.P = P]

\* the sign of the slope sequential_rotation computes from past_power
\* (np.mean of an empty slice is nan, and nan compares False)
Slope(past) ==
    IF Len(past) < 2 THEN NaN
    ELSE IF past[Len(past)] > past[1] THEN 1
    ELSE IF past[Len(past)] < past[1] THEN 0 - 1
    ELSE 0

\* sequential_rotation, step (1): update past_power with the current input
PushPower(S, power_in) ==
    IF Len(S.past_power) < S.filter_width
    THEN Append(S.past_power, power_in)
    ELSE Append(Tail(S.past_power), power_in)

\* P_indv[self.waiting > 0] = x; P_indv[elec_var] = y
SwingShare(a, elec_var, x, y) ==
    [a EXCEPT !.P = [i \in Idx |-> IF i = elec_var THEN y
                                   ELSE IF a.sup.waiting[i] > 0 THEN x
                                   ELSE a.P[i]]]

\* ElectrolyzerSupervisor.sequential_rotation
sequential_rotation(S0, st, power_in) ==
    LET n_full == power_in \div stack_rating
        left_over_power == power_in % stack_rating
        stack_difference == n_full - ActivePlusWaiting(S0)
        elec_var == S0.stack_rotation[1]
        S == [S0 EXCEPT !.past_power = PushPower(S0, power_in)]
        slope == Slope(S.past_power)
        falling == ~IsNaN(slope) /\ slope < 0
        rising  == ~IsNaN(slope) /\ slope > 0
        idle == VecSum(S.waiting) = 0 /\ VecSum(S.active) # NStacks
        \* P_indv[self.active > 0] = rating, the rest 0
        a0 == Alloc(S, st, [i \in Idx |-> IF S.active[i] > 0
                                          THEN stack_rating ELSE 0], FALSE)
    IN  IF stack_difference >= 0
        THEN IF idle /\ 100 * left_over_power > 15 * stack_rating
             THEN TurnOnLoop(a0, 0, stack_difference)
             ELSE a0
        ELSE IF stack_difference > 0 - 2
        THEN IF idle
             THEN LET pos == FirstInactiveFrom(S, 1)
                  IN  IF pos > NStacks THEN [a0 EXCEPT !.fault = TRUE]
                      ELSE [turn_on_stack(a0, S.stack_rotation[pos])
                              EXCEPT !.P[S.stack_rotation[pos]] = stack_rating]
             ELSE a0
        ELSE IF VecSum(S.waiting) = 0
        THEN \* (left_over < 0.1 rating and no waiting) or
             \* (stack_difference < -1 and no waiting)
             IF VecSum(S.active) > 0 /\ falling
             THEN LET b == turn_off_stack(a0, S.stack_rotation[1])
                  IN  [b EXCEPT !.sup.stack_rotation = Rotate(S.stack_rotation),
                                !.P[elec_var] = 0]
             ELSE a0
        ELSE IF 10 * left_over_power < stack_rating
        THEN SwingShare(a0, elec_var, (left_over_power + stack_rating) \div 2,
                        (left_over_power + stack_rating) \div 2)
        ELSE IF 10 * left_over_power > 8 * stack_rating /\ rising
        THEN \* here sum(waiting) > 0, so no stack is turned on
             SwingShare(a0, elec_var, left_over_power \div 2,
                        left_over_power \div 2)
        ELSE SwingShare(a0, elec_var, stack_rating, left_over_power)

\* the control_type options
RotationTypes == {"power sharing rotation", "sequential rotation"}
DegTypes == {"even split eager deg", "even split hesitant deg",
             "sequential even wear deg", "sequential single wear deg",
             "baseline deg"}
ControlTypes == RotationTypes \cup DegTypes
\* the control types that call get_healthiest_inactive / get_illest_active
RankedTypes == {"even split eager deg", "even split hesitant deg",
                "sequential even wear deg", "sequential single wear deg"}

\* control(): "calculate stack power distribution"
Distribute(S, st, power_in, tb) ==
    CASE S.control_type = "power sharing rotation"
           -> power_sharing_rotation(S, st, power_in)
      [] S.control_type = "sequential rotation"
           -> sequential_rotation(S, st, power_in)
      [] S.control_type = "even split eager deg"
           -> distribute_power_equal_eager(S, st, power_in, tb)
      [] S.control_type = "even split hesitant deg"
           -> distribute_power_equal_hesitant(S, st, power_in, tb)
      [] S.control_type = "sequential even wear deg"
           -> distribute_power_sequential_even_wear(S, st, power_in, tb)
      [] S.control_type = "sequential single wear deg"
           -> distribute_power_sequential_single_wear(S, st, power_in, tb)
      [] S.control_type = "baseline deg"
           -> baseline_controller(S, st, power_in)

\* control() leaving Off a stack the controller wants on
Reconcile_NoTurnOn(S, st, on_or_waiting) ==
    [ i \in Idx |->
        IF S.active[i] - on_or_waiting[i] = 0 - 1
        THEN turn_stack_off(st[i]) ELSE st[i] ]

\* control(): "Query stacks for their status and turn them on or off as
\* needed", for the control types whose name holds "deg"
Reconcile(S, st, on_or_waiting) ==
    [ i \in Idx |->
        LET mismatch == S.active[i] - on_or_waiting[i]
        IN  IF mismatch = 1 THEN turn_stack_on(st[i])
            ELSE IF mismatch = 0 - 1 THEN turn_stack_off(st[i])
            ELSE st[i] ]

OnOrWaiting(s) == s.stack_on \/ s.stack_waiting

\* np.dot(on_or_waiting, stack_power) and the sum of power_left_i; any nan
\* term makes the sum nan
DotPower(w, P) ==
    IF \E i \in Idx : IsNaN(P[i]) THEN NaN
    ELSE VecSum([i \in Idx |-> w[i] * P[i]])

\* control() returning power_in - x without the floor at 0
Curtailed_NoClamp(power_in, x) == IF IsNaN(x) THEN 0 ELSE power_in - x

\* max(0, power_in - x): Python's max keeps its first argument when the
\* comparison with nan is False
Curtailed(power_in, x) == IF IsNaN(x) THEN 0 ELSE Max(0, power_in - x)

\* control(): the status update and the return value that follow the run
\* loop; r holds what each stack's run returned
control_return(a, on_or_waiting0, r, power_in) ==
    [fault |-> FALSE,
     sup |-> [a.sup EXCEPT
                !.active = Vec([i \in Idx |-> IF r[i].stack.stack_on
                                              THEN 1 ELSE a.sup.active[i]]),
                !.waiting = Vec([i \in Idx |-> IF r[i].stack.stack_waiting
                                               THEN 1 ELSE 0]),
                !.stacks_waiting_vec = Vec([i \in Idx |-> IF r[i].stack.stack_waiting
                                                          THEN 1 ELSE 0]),
                !.deg_state = Vec([i \in Idx |-> r[i].stack.V_degradation]),
                !.stacks_on = Cardinality({i \in Idx : r[i].stack.stack_on})],
     stacks |-> Vec([i \in Idx |-> r[i].stack]),
     stack_power |-> a.P,
     started |-> a.started,
     power_left |-> DotPower([i \in Idx |-> 1], [i \in Idx |-> r[i].power_left]),
     curtailed_wind |->
         Curtailed(power_in,
                   DotPower([i \in Idx |-> IF OnOrWaiting(r[i].stack)
                                           THEN 1 ELSE on_or_waiting0[i]], a.P))]

\* control(): "simulate 1 time step for each stack"
control_run(a, on_or_waiting0, st, power_in, rf) ==
    control_return(a, on_or_waiting0,
                   Vec([i \in Idx |-> run(st[i], a.P[i], rf[i])]), power_in)

\* control() after the stack power distribution a is known
control_query(a, isdeg, power_in, rf) ==
    IF a.fault
    THEN [fault |-> TRUE, sup |-> a.sup, stacks |-> a.stacks]
    ELSE IF isdeg
    THEN control_run(a, [i \in Idx |-> IF OnOrWaiting(a.stacks[i]) THEN 1 ELSE 0],
                     Vec(Reconcile(a.sup, a.stacks,
                                   [i \in Idx |-> IF OnOrWaiting(a.stacks[i])
                                                  THEN 1 ELSE 0])),
                     power_in, rf)
    ELSE control_run(a, [i \in Idx |-> 0], a.stacks, power_in, rf)

\* ElectrolyzerSupervisor.control: the supervisor and the stacks when it
\* returns and what it returns; fault when it raises instead
control(S, st, power_in, tb, rf) ==
    control_query(Distribute(S, st, power_in, tb), S.control_type \in DegTypes,
                  power_in, rf)

(***************************************************************************)
(* control() with its run loop taken one stack at a time, in any order     *)
(***************************************************************************)
\* power_left += power_left_i: nan absorbs
AddPower(a, b) == IF IsNaN(a) \/ IsNaN(b) THEN NaN ELSE a + b

\* the loop body keeping only the last stack's power_left
run_loop_body_LastPowerLeft(e, i, r) ==
    [stacks |-> [e.stacks EXCEPT ![i] = r.stack],
     sup |-> [e.sup EXCEPT
                !.deg_state[i] = r.stack.V_degradation,
                !.stacks_on = IF r.stack.stack_on THEN @ + 1 ELSE @,
                !.active[i] = IF r.stack.stack_on THEN 1 ELSE @,
                !.waiting[i] = IF r.stack.stack_waiting THEN 1 ELSE 0,
                !.stacks_waiting_vec[i] = IF r.stack.stack_waiting THEN 1 ELSE 0],
     on_or_waiting |-> [e.on_or_waiting EXCEPT
                          ![i] = IF OnOrWaiting(r.stack) THEN 1 ELSE @],
     power_left |-> r.power_left]

\* control(): the body of the loop "simulate 1 time step for each stack"
\* for stack i; r is what self.stacks[i].run(stack_power[i]) returned
run_loop_body(e, i, r) ==
    [stacks |-> [e.stacks EXCEPT ![i] = r.stack],
     sup |-> [e.sup EXCEPT
                !.deg_state[i] = r.stack.V_degradation,
                !.stacks_on = IF r.stack.stack_on THEN @ + 1 ELSE @,
                !.active[i] = IF r.stack.stack_on THEN 1 ELSE @,
                !.waiting[i] = IF r.stack.stack_waiting THEN 1 ELSE 0,
                !.stacks_waiting_vec[i] = IF r.stack.stack_waiting THEN 1 ELSE 0],
     on_or_waiting |-> [e.on_or_waiting EXCEPT
                          ![i] = IF OnOrWaiting(r.stack) THEN 1 ELSE @],
     power_left |-> AddPower(e.power_left, r.power_left)]

\* the loop over the stacks, from the k-th stack of the order on
RECURSIVE run_loop(_, _, _, _, _)
run_loop(e, P, rf, order, k) ==
    IF k > NStacks THEN e
    ELSE run_loop(run_loop_body(e, order[k],
                                run(e.stacks[order[k]], P[order[k]], rf[order[k]])),
                  P, rf, order, k + 1)

\* control(): what it returns once the loop has left e
control_return_in_order(a, e, power_in) ==
    [fault |-> FALSE,
     sup |-> e.sup,
     stacks |-> e.stacks,
     stack_power |-> a.P,
     started |-> a.started,
     power_left |-> e.power_left,
     curtailed_wind |-> Curtailed(power_in, DotPower(e.on_or_waiting, a.P))]

\* control() from "simulate 1 time step for each stack" on
control_run_in_order(a, on_or_waiting0, st, power_in, rf, order) ==
    control_return_in_order(
        a,
        run_loop([stacks |-> st,
                  sup |-> [a.sup EXCEPT !.stacks_on = 0],
                  on_or_waiting |-> on_or_waiting0,
                  power_left |-> 0],
                 a.P, rf, order, 1),
        power_in)

\* control() after the stack power distribution a is known
control_query_in_order(a, isdeg, power_in, rf, order) ==
    IF a.fault
    THEN [fault |-> TRUE, sup |-> a.sup, stacks |-> a.stacks]
    ELSE IF isdeg
    THEN control_run_in_order(
             a, Vec([i \in Idx |-> IF OnOrWaiting(a.stacks[i]) THEN 1 ELSE 0]),
             Vec(Reconcile(a.sup, a.stacks,
                           [i \in Idx |-> IF OnOrWaiting(a.stacks[i])
                                          THEN 1 ELSE 0])),
             power_in, rf, order)
    ELSE control_run_in_order(a, Vec([i \in Idx |-> 0]), a.stacks,
                              power_in, rf, order)

\* ElectrolyzerSupervisor.control with the stacks run in the given order
control_in_order(S, st, power_in, tb, rf, order) ==
    control_query_in_order(Distribute(S, st, power_in, tb),
                           S.control_type \in DegTypes, power_in, rf, order)

(***************************************************************************)
(* State                                                                   *)
(***************************************************************************)
VARIABLES
    stacks,   \* the Stack objects, by index
    sup,      \* the ElectrolyzerSupervisor's own fields
    last,     \* the last operation, its inputs and what it returned
    steps     \* operations that advanced time so far

vars == <<stacks, sup, last, steps>>

(***************************************************************************)
(* A single stack driven by any sequence of run / turn_on / turn_off       *)
(***************************************************************************)
\* time steps: 300 s (the delay spans two steps), 1200 s (three steps an
\* hour), 1500 s (more than twice the delay: no startup delay)
StackDts == {1, 4, 5}
ZeroRates == [steady |-> 0, fatigue |-> 0, onoff |-> 0]
UnitRates == [steady |-> 1, fatigue |-> 1, onoff |-> 1]
\* degradation rates and the hydrogen_degradation_penalty flag (with zero
\* rates the flag changes nothing)
StackConfigs == { [rates |-> ZeroRates, h2 |-> TRUE],
                  [rates |-> UnitRates, h2 |-> TRUE],
                  [rates |-> UnitRates, h2 |-> FALSE] }
\* stack power inputs: none, low (cell voltage within 5% of the idle
\* voltage), rated
StackPowers == {0, 40, 240}

StackInit ==
    /\ \E dt \in StackDts, c \in StackConfigs :
          stacks = [i \in {0} |-> NewStack(dt, c.rates, c.h2, TRUE)]
    /\ sup = [control_type |-> "none"]
    /\ last = [op |-> "init"]
    /\ steps = 0

StackRun ==
    /\ steps < MaxSteps
    /\ \E P \in StackPowers, rf \in RfChoices(update_status(stacks[0])) :
          LET r == run(stacks[0], P, rf)
          IN  /\ stacks' = [stacks EXCEPT ![0] = r.stack]
              /\ last' = [op |-> "run", P_in |-> P, power_left |-> r.power_left]
    /\ steps' = steps + 1
    /\ UNCHANGED sup

StackTurnOn ==
    /\ stacks' = [stacks EXCEPT ![0] = turn_stack_on(stacks[0])]
    /\ last' = [op |-> "turn_on"]
    /\ UNCHANGED <<steps, sup>>

StackTurnOff ==
    /\ stacks[0].cycle_count < MaxCycles
    /\ stacks' = [stacks EXCEPT ![0] = turn_stack_off(stacks[0])]
    /\ last' = [op |-> "turn_off"]
    /\ UNCHANGED <<steps, sup>>

StackNext == StackRun \/ StackTurnOn \/ StackTurnOff

SpecStack == StackInit /\ [][StackNext]_vars

(***************************************************************************)
(* The fleet: a supervisor with a fixed control type, driven by any        *)
(* sequence of control(power_in) calls                                     *)
(***************************************************************************)
\* time steps: 600 s (a started stack is On at the next call) and 1500 s
\* (no startup delay)
FleetDts == {2, 5}
\* power inputs: none, below the minimum power, two and five times the
\* minimum, the rating, the rating plus the minimum power, 2.5 times the
\* rating, more than the fleet can take
FleetPowers == {0, 12, 48, 120, 240, 264, 600, NStacks * 240 + 120}

\* the orders argsort may leave equal degradation values in; only the
\* health-ranked policies sort
TieChoices(S) ==
    IF S.control_type \in RankedTypes THEN TieOrders
    ELSE {[k \in 1 .. NStacks |-> k - 1]}

\* one rainflow outcome per stack
RfVectors(st) == {rf \in [Idx -> RainflowSums] :
                    \A i \in Idx : rf[i] \in RfChoices(st[i])}

Init ==
    /\ \E ct \in ControlTypes, dt \in FleetDts, h2 \in BOOLEAN :
          /\ sup = NewSupervisor(ct, dt)
          /\ stacks = [i \in Idx |-> NewStack(dt, UnitRates, h2, TRUE)]
    /\ last = [op |-> "init", fault |-> FALSE]
    /\ steps = 0

Control ==
    /\ steps < MaxCalls
    /\ ~last.fault
    /\ \E power_in \in FleetPowers, tb \in TieChoices(sup),
          rf \in RfVectors(stacks) :
          /\ \E c \in {control(sup, stacks, power_in, tb, rf)} :
                 /\ sup' = c.sup
                 /\ stacks' = c.stacks
                 /\ last' = IF c.fault
                            THEN [op |-> "control", fault |-> TRUE,
                                  power_in |-> power_in]
                            ELSE [op |-> "control", fault |-> FALSE,
                                  power_in |-> power_in,
                                  stack_power |-> c.stack_power,
                                  started |-> c.started,
                                  power_left |-> c.power_left,
                                  curtailed_wind |-> c.curtailed_wind]
    /\ steps' = steps + 1

Next == Control

Spec == Init /\ [][Next]_vars

(***************************************************************************)
(* The two rotation policies on their own, over longer call sequences: a   *)
(* started stack is Waiting for a whole call before it is On, so a stack   *)
(* started while others are On takes four calls to come about              *)
(***************************************************************************)
\* the rotation policies do not sort; any tie order will do
IndexOrder == [k \in 1 .. NStacks |-> k - 1]

RotationInit ==
    /\ \E ct \in RotationTypes, dt \in FleetDts, h2 \in BOOLEAN :
          /\ sup = NewSupervisor(ct, dt)
          /\ stacks = [i \in Idx |-> NewStack(dt, UnitRates, h2, TRUE)]
    /\ last = [op |-> "init", fault |-> FALSE]
    /\ steps = 0

RotationControl ==
    /\ steps < MaxRotationCalls
    /\ ~last.fault
    /\ \E power_in \in FleetPowers, rf \in RfVectors(stacks) :
          \E c \in {control(sup, stacks, power_in, IndexOrder, rf)} :
             /\ sup' = c.sup
             /\ stacks' = c.stacks
             /\ last' = IF c.fault
                        THEN [op |-> "control", fault |-> TRUE,
                              power_in |-> power_in]
                        ELSE [op |-> "control", fault |-> FALSE,
                              power_in |-> power_in,
                              stack_power |-> c.stack_power,
                              started |-> c.started,
                              power_left |-> c.power_left,
                              curtailed_wind |-> c.curtailed_wind]
    /\ steps' = steps + 1

RotationNext == RotationControl

SpecRotation == RotationInit /\ [][RotationNext]_vars

(***************************************************************************)
(* The fleet with the run loop of control() taken in any order of the      *)
(* stacks                                                                  *)
(***************************************************************************)
MaxOrderCalls == 2

\* the orders the stacks' run() calls of one control call can be made in
\* (the health ranking keeps tied stacks in index order here: the order of
\* the run loop is what varies)
RunOrders == TieOrders

OrderInit ==
    /\ \E ct \in ControlTypes, dt \in FleetDts, h2 \in BOOLEAN :
          /\ sup = NewSupervisor(ct, dt)
          /\ stacks = [i \in Idx |-> NewStack(dt, UnitRates, h2, TRUE)]
    /\ last = [op |-> "init", fault |-> FALSE]
    /\ steps = 0

OrderControl ==
    /\ steps < MaxOrderCalls
    /\ ~last.fault
    /\ \E power_in \in FleetPowers, rf \in RfVectors(stacks),
          order \in RunOrders :
          \E c \in {control_in_order(sup, stacks, power_in, IndexOrder, rf,
                                     order)} :
             /\ sup' = c.sup
             /\ stacks' = c.stacks
             /\ last' = IF c.fault
                        THEN [op |-> "control", fault |-> TRUE,
                              power_in |-> power_in, rf |-> rf,
                              order |-> order]
                        ELSE [op |-> "control", fault |-> FALSE,
                              power_in |-> power_in, rf |-> rf,
                              order |-> order,
                              stack_power |-> c.stack_power,
                              started |-> c.started,
                              power_left |-> c.power_left,
                              curtailed_wind |-> c.curtailed_wind]
    /\ steps' = steps + 1

OrderNext == OrderControl

SpecOrder == OrderInit /\ [][OrderNext]_vars

(***************************************************************************)
(* The fleet driven by a few arbitrary control calls and then by           *)
(* control(0) calls only                                                   *)
(***************************************************************************)
MaxWarmCalls == 2
MaxIdleCalls == 5

IdleInit ==
    /\ \E ct \in ControlTypes, dt \in FleetDts, h2 \in BOOLEAN :
          /\ sup = NewSupervisor(ct, dt)
          /\ stacks = [i \in Idx |-> NewStack(dt, UnitRates, h2, TRUE)]
    /\ last = [op |-> "init", fault |-> FALSE, idle |-> 0]
    /\ steps = 0

\* control(power_in) with any input, before the input goes to zero
WarmControl ==
    /\ last.idle = 0
    /\ steps < MaxWarmCalls
    /\ ~last.fault
    /\ \E power_in \in FleetPowers, rf \in RfVectors(stacks) :
          \E c \in {control(sup, stacks, power_in, IndexOrder, rf)} :
             /\ sup' = c.sup
             /\ stacks' = c.stacks
             /\ last' = [op |-> "control", fault |-> c.fault,
                         power_in |-> power_in, idle |-> 0]
    /\ steps' = steps + 1

\* control(0), from the first zero input on
IdleControl ==
    /\ last.idle < MaxIdleCalls
    /\ ~last.fault
    /\ \E rf \in RfVectors(stacks) :
          \E c \in {control(sup, stacks, 0, IndexOrder, rf)} :
             /\ sup' = c.sup
             /\ stacks' = c.stacks
             /\ last' = [op |-> "control", fault |-> c.fault,
                         power_in |-> 0, idle |-> last.idle + 1]
    /\ steps' = steps + 1

IdleNext == WarmControl \/ IdleControl

\* IdleControl can be taken (its guard)
IdleCallable == last.idle < MaxIdleCalls /\ ~last.fault

\* what an IdleControl step does to the record of the last call: the call is
\* counted, whatever it does to the supervisor and the stacks
IdleCall ==
    /\ IdleCallable
    /\ \E f \in BOOLEAN :
          last' = [op |-> "control", fault |-> f,
                   power_in |-> 0, idle |-> last.idle + 1]

\* the caller keeps calling control(0): weak fairness of the idle call, whose
\* steps are the IdleControl steps
SpecIdle ==
    /\ IdleInit
    /\ [][IdleNext]_vars
    /\ WF_last(IdleCall)

(***************************************************************************)
(* The fleet, all stacks Off, driven by control calls with one constant    *)
(* input                                                                   *)
(***************************************************************************)
MaxHoldCalls == 5

\* inputs strictly above one stack's minimum power and at most the fleet
\* capacity
HeldPowers ==
    {p \in FleetPowers : p > stack_min_power /\ p <= NStacks * stack_rating}

HoldInit ==
    /\ \E ct \in ControlTypes, dt \in FleetDts, h2 \in BOOLEAN :
          /\ sup = NewSupervisor(ct, dt)
          /\ stacks = [i \in Idx |-> NewStack(dt, UnitRates, h2, TRUE)]
    /\ last = [op |-> "init", fault |-> FALSE]
    /\ steps = 0

\* control(power_in), power_in being the input of the call before
HoldControl ==
    /\ steps < MaxHoldCalls
    /\ ~last.fault
    /\ \E power_in \in IF last.op = "init" THEN HeldPowers ELSE {last.power_in},
          rf \in RfVectors(stacks) :
          \E c \in {control(sup, stacks, power_in, IndexOrder, rf)} :
             /\ sup' = c.sup
             /\ stacks' = c.stacks
             /\ last' = [op |-> "control", fault |-> c.fault,
                         power_in |-> power_in]
    /\ steps' = steps + 1

HoldNext == HoldControl

\* HoldControl can be taken (its guard)
HoldCallable == steps < MaxHoldCalls /\ ~last.fault

\* what a HoldControl step does to the count of calls
HoldCall == HoldCallable /\ steps' = steps + 1

\* the caller keeps calling control: weak fairness of the call, whose steps
\* are the HoldControl steps
SpecHold ==
    /\ HoldInit
    /\ [][HoldNext]_vars
    /\ WF_steps(HoldCall)

(***************************************************************************)
(* The hydrogen output of a single stack: the part of a Stack that         *)
(* run_stack reads and writes to compute the mass flow rate and the mass,  *)
(* with time in seconds.  Whether a Waiting stack has waited long enough   *)
(* when run() begins is an input here (ready).                             *)
(***************************************************************************)
MaxDynSteps == 5
\* the time constant of the first-order dynamics
tau == 5
\* time steps: below tau (the filter acts) and above (dynamics ignored)
DynDts == {3, 8}
\* stack currents
DynCurrents == {0, 8, 16}

\* the steady-state mass flow rate of the stack at current I_stack
\* (cell.calc_mass_flow_rate(T, I) * n_cells): proportional to the current
calc_mass_flow_rate(I_stack) == I_stack

NewDynamics(dt) ==
    [ dt |-> dt,
      ignore_dynamics |-> dt > tau,
      stack_on |-> FALSE,
      stack_waiting |-> FALSE,
      stack_state |-> 0 ]

\* Stack.update_dynamics: the zero-order-hold discretisation of
\* 1 / (tau s + 1), in units of the output: the output is the state before
\* the step, the state moves a fraction 1 - exp(-dt / tau) (taken as one
\* half) of the way to the steady-state input
update_dynamics(s, H2_mfr_ss) ==
    IF s.ignore_dynamics
    THEN [next_state |-> s.stack_state, H2_mfr_actual |-> H2_mfr_ss]
    ELSE [next_state |-> (s.stack_state + H2_mfr_ss) \div 2,
          H2_mfr_actual |-> s.stack_state]

\* Stack.run (update_status, then run_stack): the hydrogen it returns
run_h2(s0, ready, I_stack) ==
    LET s == IF ~s0.stack_on /\ s0.stack_waiting /\ ready
             THEN [s0 EXCEPT !.stack_waiting = FALSE, !.stack_on = TRUE]
             ELSE s0
        d == update_dynamics(s, IF s.stack_on THEN calc_mass_flow_rate(I_stack)
                                ELSE 0)
    IN  [stack |-> [s EXCEPT !.stack_state = d.next_state],
         H2_mfr |-> d.H2_mfr_actual,
         H2_mass_out |-> IF s.stack_on THEN d.H2_mfr_actual * s.dt ELSE 0]

DynInit ==
    /\ \E dt \in DynDts : stacks = [i \in {0} |-> NewDynamics(dt)]
    /\ sup = [control_type |-> "none"]
    /\ last = [op |-> "init"]
    /\ steps = 0

DynRun ==
    /\ steps < MaxDynSteps
    /\ \E ready \in BOOLEAN, I_stack \in DynCurrents :
          \E r \in {run_h2(stacks[0], ready, I_stack)} :
             /\ stacks' = [stacks EXCEPT ![0] = r.stack]
             /\ last' = [op |-> "run", H2_mfr |-> r.H2_mfr,
                         H2_mass_out |-> r.H2_mass_out]
    /\ steps' = steps + 1
    /\ UNCHANGED sup

\* Stack.turn_stack_on: the mode
DynTurnOn ==
    /\ ~stacks[0].stack_on
    /\ stacks' = [stacks EXCEPT ![0].stack_waiting = TRUE]
    /\ last' = [op |-> "turn_on"]
    /\ UNCHANGED <<steps, sup>>

\* Stack.turn_stack_off: the mode
DynTurnOff ==
    /\ stacks[0].stack_on \/ stacks[0].stack_waiting
    /\ stacks' = [stacks EXCEPT ![0].stack_on = FALSE,
                                ![0].stack_waiting = FALSE]
    /\ last' = [op |-> "turn_off"]
    /\ UNCHANGED <<steps, sup>>

DynNext == DynRun \/ DynTurnOn \/ DynTurnOff

SpecDynamics == DynInit /\ [][DynNext]_vars

(***************************************************************************)
(* The health ranking on its own: get_healthiest_inactive and              *)
(* get_illest_active applied to any 0/1 activity vector, any degradation   *)
(* values and any count the vector allows                                  *)
(***************************************************************************)
DegValues == {0, 1, 2}

HealthInit ==
    /\ \E active \in [Idx -> {0, 1}], deg_state \in [Idx -> DegValues] :
          sup = [control_type |-> "none", active |-> active,
                 deg_state |-> deg_state]
    /\ stacks = <<>>
    /\ last = [op |-> "init"]
    /\ steps = 0

\* self.active += self.get_healthiest_inactive(self.active, self.deg_state, k)
HealthiestInactive ==
    /\ steps < MaxCalls
    /\ \E tb \in TieOrders,
          k \in 0 .. Cardinality({i \in Idx : sup.active[i] = 0}) :
          \E temp \in {get_healthiest_inactive(sup.active, sup.deg_state, k, tb)} :
             /\ last' = [op |-> "get_healthiest_inactive", active |-> sup.active,
                         deg_state |-> sup.deg_state, k |-> k, temp |-> Vec(temp)]
             /\ sup' = [sup EXCEPT !.active = Vec([i \in Idx |-> sup.active[i] + temp[i]])]
    /\ steps' = steps + 1
    /\ UNCHANGED stacks

\* self.active *= self.get_illest_active(self.active, self.deg_state, k)
IllestActive ==
    /\ steps < MaxCalls
    /\ \E tb \in TieOrders,
          k \in 0 .. Cardinality({i \in Idx : sup.active[i] = 1}) :
          \E temp \in {get_illest_active(sup.active, sup.deg_state, k, tb)} :
             /\ last' = [op |-> "get_illest_active", active |-> sup.active,
                         deg_state |-> sup.deg_state, k |-> k, temp |-> Vec(temp)]
             /\ sup' = [sup EXCEPT !.active = Vec([i \in Idx |-> sup.active[i] * temp[i]])]
    /\ steps' = steps + 1
    /\ UNCHANGED stacks

HealthNext == HealthiestInactive \/ IllestActive

SpecHealth == HealthInit /\ [][HealthNext]_vars

Off(s) == ~s.stack_on /\ ~s.stack_waiting

(***************************************************************************)
(* C2.  In every step of any sequence of run / turn_on / turn_off, the     *)
(* voltage degradation of a stack after the step is at least what it was   *)
(* before the step (rates and cell voltages being non-negative).           *)
(***************************************************************************)
C2_DegradationMonotone ==
    [][\A i \in DOMAIN stacks :
          stacks'[i].V_degradation >= stacks[i].V_degradation]_vars

\* a stack that has accumulated all three kinds of degradation
C2_Witness ==
    /\ stacks[0].d_s > 0
    /\ stacks[0].d_o > 0
    /\ stacks[0].fatigue_history > 0
    /\ stacks[0].V_degradation = stacks[0].d_s + stacks[0].d_o + stacks[0].fatigue_history

(***************************************************************************)
(* C3.  A stack that was switched off while its startup wait was still     *)
(* running is Off with a positive remaining wait (wait_time > 0 after at   *)
(* least one turn_off).                                                    *)
(***************************************************************************)
InterruptedWait(s) ==
    /\ Off(s)
    /\ s.turn_on_delay > 0
    /\ s.cycle_count > 0
    /\ s.wait_time > 0

C4_FatigueOncePerHour ==
    [][last'.op = "run" =>
          /\ stacks'[0].fatigue_evaluated <=> stacks[0].hour_change
          /\ ~FatiguePenalised(stacks[0].voltage_signal)
                => stacks'[0].fatigue_history = stacks[0].fatigue_history]_vars

(***************************************************************************)
(* C5.  get_healthiest_inactive(k) marks exactly the k inactive stacks     *)
(* with the smallest degradation and get_illest_active(k) clears exactly   *)
(* the k active stacks with the largest degradation, equal degradations    *)
(* being taken in the order of the stack index; the former marks no active *)
(* stack and the latter clears no inactive stack.                          *)
(***************************************************************************)
\* the stacks of cand that come before i: smaller key, or equal key and
\* smaller index
AheadByIndex(cand, key, i) ==
    Cardinality({ j \in cand : key[j] < key[i] \/ (key[j] = key[i] /\ j < i) })

C5_HealthRanking ==
    /\ last.op = "get_healthiest_inactive" =>
          LET inact == {i \in Idx : last.active[i] = 0}
          IN  \A i \in Idx :
                 last.temp[i] = 1 <=>
                    /\ i \in inact
                    /\ AheadByIndex(inact, last.deg_state, i) < last.k
    /\ last.op = "get_illest_active" =>
          LET act == {i \in Idx : last.active[i] = 1}
              neg == [i \in Idx |-> 0 - last.deg_state[i]]
          IN  \A i \in Idx :
                 last.temp[i] = 0 <=>
                    /\ i \in act
                    /\ AheadByIndex(act, neg, i) < last.k

(***************************************************************************)
(* Claims about control(power_in)                                          *)
(***************************************************************************)
\* control(power_in) has returned (it did not raise)
Returned == last.op = "control" /\ ~last.fault

RECURSIVE SumOver(_, _)
\* the sum of v over the stacks in set js
SumOver(v, js) ==
    IF js = {} THEN 0
    ELSE LET i == CHOOSE j \in js : TRUE
         IN  v[i] + SumOver(v, js \ {i})

(***************************************************************************)
(* C1.  When control(power_in) returns, under every policy: the allocated  *)
(* power of the stacks that are active or waiting, plus the returned       *)
(* unconsumed power, plus the returned curtailed power, is power_in.       *)
(***************************************************************************)
C1_PowerBalance ==
    Returned =>
        LET drawing == {i \in Idx : sup.active[i] = 1 \/ sup.waiting[i] = 1}
        IN  /\ ~IsNaN(last.power_left)
            /\ \A i \in drawing : ~IsNaN(last.stack_power[i])
            /\ SumOver(last.stack_power, drawing) + last.power_left
                 + last.curtailed_wind = last.power_in

(***************************************************************************)
(* C6.  When control(power_in) returns, under every policy, the returned   *)
(* curtailed power is max(0, power_in - the allocated power of the stacks  *)
(* that are then On or Waiting); a stack switched off during the call      *)
(* adds nothing to that sum.                                               *)
(***************************************************************************)
C6_Curtailment ==
    Returned =>
        LET drawing == {i \in Idx : stacks[i].stack_on \/ stacks[i].stack_waiting}
        IN  last.curtailed_wind
              = Max(0, last.power_in - SumOver(last.stack_power, drawing))

\* a call that curtailed power and switched off a stack it had allocated
\* power to
C6_Witness ==
    /\ Returned
    /\ last.curtailed_wind > 0
    /\ \E i \in Idx :
          /\ Off(stacks[i]) /\ stacks[i].turn_off_time = stacks[i].time - stacks[i].dt
          /\ stacks[i].cycle_count > 0
          /\ last.stack_power[i] > 0

(***************************************************************************)
(* C7.  When control() returns, under every policy, every stack i with     *)
(* active[i] = 1 is On or Waiting, and waiting[i] = 1 exactly for the      *)
(* stacks that are Waiting.                                                *)
(***************************************************************************)
C7_BeliefMatchesModes ==
    Returned =>
        \A i \in Idx :
           /\ sup.active[i] = 1 => (stacks[i].stack_on \/ stacks[i].stack_waiting)
           /\ sup.waiting[i] = 1 <=> stacks[i].stack_waiting

\* a return with a stack On, a stack Waiting and a stack Off
C7_Witness ==
    /\ Returned
    /\ \E i, j, k \in Idx :
          /\ stacks[i].stack_on /\ sup.active[i] = 1
          /\ stacks[j].stack_waiting /\ sup.waiting[j] = 1
          /\ Off(stacks[k]) /\ sup.active[k] = 0

(***************************************************************************)
(* C8.  Under the equal-split eager policy, when control(power_in)         *)
(* returns, min(N, floor(power_in / min_power)) stacks are active, every   *)
(* active stack is allocated min(power_in / n_active, rating) and every    *)
(* inactive stack is allocated 0.                                          *)
(***************************************************************************)
EagerReturned == Returned /\ sup.control_type = "even split eager deg"

C8_EagerSplit ==
    EagerReturned =>
        LET n == Min(NStacks, last.power_in \div stack_min_power)
        IN  /\ Cardinality({i \in Idx : sup.active[i] = 1}) = n
            /\ \A i \in Idx : sup.active[i] \in {0, 1}
            /\ \A i \in Idx :
                  IF sup.active[i] = 1
                  THEN /\ n * last.stack_power[i] <= last.power_in
                       /\ last.stack_power[i] <= stack_rating
                       /\ \/ n * last.stack_power[i] = last.power_in
                          \/ last.stack_power[i] = stack_rating
                  ELSE last.stack_power[i] = 0

\* 2.5 times the rating on three or more stacks: three stacks active, each
\* allocated a third of the input
C8_Witness ==
    /\ EagerReturned
    /\ 2 * last.power_in = 5 * stack_rating
    /\ Cardinality({i \in Idx : sup.active[i] = 1 /\ 3 * last.stack_power[i] = last.power_in}) = 3

(***************************************************************************)
(* C9.  As stated: under the equal-split eager policy the number of stacks *)
(* active when control(power_in) returns is the least k, capped at N, for  *)
(* which power_in / k is at or below the stack rating.                     *)
(***************************************************************************)
C9_Original ==
    EagerReturned =>
        LET n == Cardinality({i \in Idx : sup.active[i] = 1})
        IN  IF last.power_in = 0 THEN n = 0
            ELSE /\ n >= 1
                 /\ last.power_in <= n * stack_rating \/ n = NStacks
                 /\ n > 1 => last.power_in > (n - 1) * stack_rating

\* C9 as amended: the number of active stacks is the greatest k, capped at
\* N, for which power_in / k is at or above the minimum stack power (no
\* stack when power_in is below the minimum stack power).
C9_EagerCount ==
    EagerReturned =>
        LET n == Cardinality({i \in Idx : sup.active[i] = 1})
        IN  /\ n * stack_min_power <= last.power_in
            /\ n = NStacks \/ (n + 1) * stack_min_power > last.power_in

\* half the rating: one stack could take it, yet more than one is active,
\* each at or above the minimum power
C9_Witness ==
    /\ EagerReturned
    /\ 2 * last.power_in = stack_rating
    /\ Cardinality({i \in Idx : sup.active[i] = 1}) > 1
    /\ \A i \in Idx : sup.active[i] = 1 => last.stack_power[i] >= stack_min_power

(***************************************************************************)
(* C10.  Under the baseline policy: with all stacks inactive, a control    *)
(* call with min_power < power_in <= rating activates exactly one stack    *)
(* and allocates it exactly power_in, all other stacks 0; with that stack  *)
(* the only active one, a control call with power_in below min_power times *)
(* the number of active stacks deactivates it.                             *)
(***************************************************************************)
C10_Baseline ==
    [][(sup.control_type = "baseline deg" /\ last'.op = "control" /\ ~last'.fault) =>
          /\ (/\ \A i \in Idx : sup.active[i] = 0
              /\ last'.power_in > stack_min_power
              /\ last'.power_in <= stack_rating)
                => /\ {i \in Idx : sup'.active[i] = 1} = {0}
                   /\ stacks'[0].stack_on \/ stacks'[0].stack_waiting
                   /\ \A i \in Idx \ {0} : Off(stacks'[i])
                   /\ \A i \in Idx : last'.stack_power[i]
                                       = IF i = 0 THEN last'.power_in ELSE 0
          /\ (/\ {i \in Idx : sup.active[i] = 1} = {0}
              /\ last'.power_in < stack_min_power * 1)
                => /\ \A i \in Idx : sup'.active[i] = 0
                   /\ \A i \in Idx : Off(stacks'[i])]_vars

\* the one stack the baseline policy had activated has just been
\* deactivated by an input below the minimum power
C10_Witness ==
    /\ Returned
    /\ sup.control_type = "baseline deg"
    /\ last.power_in < stack_min_power
    /\ \A i \in Idx : sup.active[i] = 0
    /\ Off(stacks[0])
    /\ stacks[0].cycle_count = 1
    /\ stacks[0].turn_off_time = stacks[0].time - stacks[0].dt

\* the stacks the supervisor holds active
ActiveSet(S) == {i \in Idx : S.active[i] = 1}

(***************************************************************************)
(* C11.  Under the equal-split hesitant policy, a control call increases   *)
(* the number of active stacks only if power_in exceeds the combined       *)
(* rating of the stacks active before the call, decreases it only if       *)
(* power_in is below min_power times their number, and otherwise leaves    *)
(* the active set as it was.                                               *)
(***************************************************************************)
C11_Hesitant ==
    [][(sup.control_type = "even split hesitant deg"
          /\ last'.op = "control" /\ ~last'.fault) =>
          LET n  == Cardinality(ActiveSet(sup))
              n2 == Cardinality(ActiveSet(sup'))
          IN  /\ n2 > n => last'.power_in > n * stack_rating
              /\ n2 < n => last'.power_in < n * stack_min_power
              /\ n2 = n => ActiveSet(sup') = ActiveSet(sup)
              /\ (/\ last'.power_in <= n * stack_rating
                  /\ last'.power_in >= n * stack_min_power)
                    => ActiveSet(sup') = ActiveSet(sup)]_vars

\* a hesitant call that has just shed a stack it had added earlier, other
\* stacks staying active
C11_Witness ==
    /\ Returned
    /\ sup.control_type = "even split hesitant deg"
    /\ ActiveSet(sup) # {}
    /\ \E i \in Idx \ ActiveSet(sup) :
          /\ Off(stacks[i])
          /\ stacks[i].cycle_count > 0
          /\ stacks[i].turn_off_time = stacks[i].time - stacks[i].dt

\* stack i was On or Waiting before the step and is Off after it
Shed(i) ==
    /\ stacks[i].stack_on \/ stacks[i].stack_waiting
    /\ Off(stacks'[i])

(***************************************************************************)
(* C12.  Under the power-sharing rotation policy, a control call sheds a   *)
(* stack only if the per-stack share power_in / sum(active + waiting) is   *)
(* below 20% of the rating and no stack is waiting when the call is made.  *)
(***************************************************************************)
C12_ShedGuard ==
    [][(sup.control_type = "power sharing rotation"
          /\ last'.op = "control" /\ ~last'.fault
          /\ \E i \in Idx : Shed(i)) =>
          /\ 10 * last'.power_in < 2 * stack_rating * ActivePlusWaiting(sup)
          /\ \A i \in Idx : sup.waiting[i] = 0 /\ ~stacks[i].stack_waiting]_vars

\* the stacks that are neither active nor waiting before the step, nor
\* among the first k - 1 stacks started in it
Startable(k) ==
    {i \in Idx : /\ sup.active[i] = 0
                 /\ sup.waiting[i] = 0
                 /\ \A m \in 1 .. k - 1 : last'.started[m] # i}

(***************************************************************************)
(* C13.  Under the power-sharing rotation policy: the rotation order is    *)
(* always a permutation of the stack indices; the stack a control call     *)
(* sheds is the one at the front of the rotation order, and it is moved to *)
(* the back; every stack a call starts is the first stack in rotation      *)
(* order that is neither active nor already waiting, so that no stack is   *)
(* given turn_on twice in one call.                                        *)
(***************************************************************************)
C13_RoundRobin ==
    [][(sup.control_type = "power sharing rotation"
          /\ last'.op = "control" /\ ~last'.fault) =>
          LET rot  == sup.stack_rotation
              rot2 == sup'.stack_rotation
          IN  /\ {rot2[k] : k \in 1 .. NStacks} = Idx
              /\ \A i \in Idx : Shed(i) =>
                    /\ rot[1] = i
                    /\ rot2[NStacks] = i
                    /\ \A k \in 1 .. NStacks - 1 : rot2[k] = rot[k + 1]
              /\ \A k \in 1 .. Len(last'.started) :
                    LET j == last'.started[k]
                    IN  /\ j \in Startable(k)
                        /\ \A q \in 1 .. NStacks :
                              rot[q] \in Startable(k) =>
                                 \E p \in 1 .. q : rot[p] = j]_vars

\* the constant set of the sequential wear policies
ConstantSet(S) == {i \in Idx : S.active_constant[i] = 1}

(***************************************************************************)
(* C14.  Under the sequential even-wear policy, when control(power_in)     *)
(* returns (whatever the change of load since the previous call): exactly  *)
(* one stack is the variable stack and it is not in the constant set;      *)
(* every stack of the constant set is active and allocated the rating; the *)
(* variable stack is allocated min(rating, power_in - rating * |constant   *)
(* set|), or 0 when that is below min_power; every other stack is          *)
(* allocated 0.                                                            *)
(***************************************************************************)
C14_EvenWear ==
    (Returned /\ sup.control_type = "sequential even wear deg") =>
        LET const == ConstantSet(sup)
            share == Min(stack_rating,
                         last.power_in - stack_rating * Cardinality(const))
        IN  /\ Cardinality(sup.variable_stack) = 1
            /\ sup.variable_stack \cap const = {}
            /\ \A i \in const :
                  sup.active[i] = 1 /\ last.stack_power[i] = stack_rating
            /\ \A i \in sup.variable_stack :
                  last.stack_power[i] = IF share < stack_min_power THEN 0 ELSE share
            /\ \A i \in Idx \ (const \cup sup.variable_stack) :
                  last.stack_power[i] = 0

(***************************************************************************)
(* C15.  Under the sequential single-wear policy, at every return of       *)
(* control(): the partial-load role is on one fixed stack (stack 0, the    *)
(* variable stack of this policy), so only that stack is allocated a power *)
(* strictly between 0 and the rating; every other stack is allocated 0 or  *)
(* exactly the rating; and only active stacks are allocated power.         *)
(***************************************************************************)
C15_SingleWear ==
    (Returned /\ sup.control_type = "sequential single wear deg") =>
        /\ sup.variable_stack = {0}
        /\ \A i \in Idx \ {0} : last.stack_power[i] \in {0, stack_rating}
        /\ last.stack_power[0] >= 0 /\ last.stack_power[0] <= stack_rating
        /\ \A i \in Idx : last.stack_power[i] # 0 => sup.active[i] = 1

(***************************************************************************)
(* C16.  Under the sequential rotation policy stacks are filled to their   *)
(* full rating one after the other: a control call allocates a power other *)
(* than 0 or the rating to at most one stack, and that stack is the swing  *)
(* stack at the front of the rotation order the call starts with.          *)
(***************************************************************************)
C16_OneSwingStack ==
    [][(sup.control_type = "sequential rotation"
          /\ last'.op = "control" /\ ~last'.fault) =>
          \A i \in Idx :
              last'.stack_power[i] \notin {0, stack_rating}
                  => i = sup.stack_rotation[1]]_vars

(***************************************************************************)
(* C17.  Under the baseline policy a control call changes the number of    *)
(* active stacks by at most one; a stack it adds is the inactive stack of  *)
(* lowest index, a stack it removes is the active stack of highest index;  *)
(* so the active set is always the prefix {0, ..., k-1} of the indices.    *)
(***************************************************************************)
C17_BaselinePrefix ==
    [][(sup.control_type = "baseline deg" /\ last'.op = "control" /\ ~last'.fault) =>
          LET A  == ActiveSet(sup)
              A2 == ActiveSet(sup')
          IN  /\ A2 \subseteq A \/ A \subseteq A2
              /\ Cardinality(A2 \ A) <= 1
              /\ Cardinality(A \ A2) <= 1
              /\ \A i \in A2 \ A : \A j \in Idx \ A : i <= j
              /\ \A i \in A \ A2 : \A j \in A : j <= i
              /\ A2 = {i \in Idx : i < Cardinality(A2)}]_vars

\* the baseline policy has activated stacks 0 and 1 in two calls and
\* deactivated stack 1 again in the third
C17_Witness ==
    /\ Returned
    /\ sup.control_type = "baseline deg"
    /\ ActiveSet(sup) = {0}
    /\ Off(stacks[1])
    /\ stacks[1].cycle_count > 0
    /\ stacks[1].turn_off_time = stacks[1].time - stacks[1].dt
    /\ ~Off(stacks[0])

\* the number of stacks a sequential wear policy asks get_illest_active to
\* clear when called with power_in (0 when it does not call it)
IllestRequest(power_in) ==
    IF SequentialCount(power_in) < VecSum(sup.active)
    THEN VecSum(sup.active) - SequentialCount(power_in)
    ELSE 0

(***************************************************************************)
(* C18.  A request to deactivate more stacks than there are to deactivate  *)
(* is reported as a failure and never silently clamped: a control call of  *)
(* a sequential wear policy that asks get_illest_active to clear more      *)
(* stacks than the vector it passes holds does not return normally.        *)
(***************************************************************************)
C18_OverRequestFails ==
    [][(/\ sup.control_type \in {"sequential even wear deg",
                                 "sequential single wear deg"}
        /\ last'.op = "control"
        /\ IllestRequest(last'.power_in) > VecSum(sup.active_constant))
          => last'.fault]_vars

C20_ZeroRatesNoDegradation ==
    \A i \in DOMAIN stacks :
        (/\ stacks[i].rate_steady = 0
         /\ stacks[i].rate_fatigue = 0
         /\ stacks[i].rate_onoff = 0) => stacks[i].V_degradation = 0

\* a stack with zero rates has been switched off and on again, has counted
\* fatigue cycles, and has just run with a cell voltage on record
C20_Witness ==
    /\ last.op = "run"
    /\ stacks[0].rate_steady = 0
    /\ stacks[0].rate_fatigue = 0
    /\ stacks[0].rate_onoff = 0
    /\ stacks[0].stack_on
    /\ stacks[0].cycle_count > 0
    /\ stacks[0].rf_track > 0
    /\ stacks[0].cell_voltage > 0
    /\ stacks[0].uptime > 0

\* the startup wait of stack s is over at its current time
WaitOver(s) == s.time >= s.turn_on_time + s.wait_time

(***************************************************************************)
(* C21.  A Waiting stack becomes On at the start of the first run() call   *)
(* at which time >= turn_on_time + wait_time, and never earlier: a run()   *)
(* that begins with the wait over leaves a Waiting stack On, a run() that  *)
(* begins before that leaves it Waiting, and a stack turns On in no other  *)
(* way.                                                                    *)
(***************************************************************************)
C21_WaitingToOn ==
    [][/\ (last'.op = "run" /\ stacks[0].stack_waiting /\ WaitOver(stacks[0]))
            => (stacks'[0].stack_on /\ ~stacks'[0].stack_waiting)
       /\ (last'.op = "run" /\ stacks[0].stack_waiting /\ ~WaitOver(stacks[0]))
            => (stacks'[0].stack_waiting /\ ~stacks'[0].stack_on)
       /\ (~stacks[0].stack_on /\ stacks'[0].stack_on)
            => (last'.op = "run" /\ stacks[0].stack_waiting
                  /\ WaitOver(stacks[0]))]_vars

\* a stack that waited out a positive delay and turned On in the run()
\* that began exactly when the wait was over
C21_Witness ==
    /\ last.op = "run"
    /\ stacks[0].stack_on
    /\ stacks[0].wait_time > 0
    /\ stacks[0].time - stacks[0].dt = stacks[0].turn_on_time + stacks[0].wait_time
    /\ stacks[0].uptime = stacks[0].wait_time + stacks[0].dt

(***************************************************************************)
(* C22.  turn_on issued to an Off stack at time t moves it to Waiting,     *)
(* records turn_on_time = t and sets wait_time to                          *)
(* min(previous wait_time + (t - turn_off_time), startup delay); turn_on   *)
(* issued to an On stack changes nothing.                                  *)
(***************************************************************************)
C22_TurnOn ==
    [][last'.op = "turn_on" =>
          /\ Off(stacks[0]) =>
               /\ stacks'[0].stack_waiting /\ ~stacks'[0].stack_on
               /\ stacks'[0].turn_on_time = stacks[0].time
               /\ stacks'[0].wait_time =
                    Min(stacks[0].wait_time
                          + (stacks[0].time - stacks[0].turn_off_time),
                        stacks[0].turn_on_delay)
               /\ stacks' = [stacks EXCEPT
                               ![0].stack_waiting = TRUE,
                               ![0].turn_on_time = stacks'[0].turn_on_time,
                               ![0].wait_time = stacks'[0].wait_time]
          /\ stacks[0].stack_on => stacks' = stacks]_vars

\* an Off stack that had been switched off during its wait has just been
\* given turn_on, later than the switch-off, and waits less than the full
\* delay
C22_Witness ==
    /\ last.op = "turn_on"
    /\ stacks[0].stack_waiting
    /\ stacks[0].cycle_count > 0
    /\ stacks[0].turn_on_time = stacks[0].time
    /\ stacks[0].turn_on_time > stacks[0].turn_off_time
    /\ stacks[0].wait_time > 0
    /\ stacks[0].wait_time < stacks[0].turn_on_delay

(***************************************************************************)
(* C23.  turn_off issued at time t to a stack that is On or Waiting moves  *)
(* it to Off, records turn_off_time = t, increases cycle_count by exactly  *)
(* 1 and sets wait_time to max(0, previous wait_time - (t - turn_on_time)); *)
(* turn_off issued to an Off stack changes nothing.                        *)
(***************************************************************************)
C23_TurnOff ==
    [][last'.op = "turn_off" =>
          /\ ~Off(stacks[0]) =>
               /\ Off(stacks'[0])
               /\ stacks'[0].turn_off_time = stacks[0].time
               /\ stacks'[0].cycle_count = stacks[0].cycle_count + 1
               /\ stacks'[0].wait_time =
                    Max(0, stacks[0].wait_time
                             - (stacks[0].time - stacks[0].turn_on_time))
               /\ stacks' = [stacks EXCEPT
                               ![0].stack_on = FALSE,
                               ![0].stack_waiting = FALSE,
                               ![0].turn_off_time = stacks'[0].turn_off_time,
                               ![0].cycle_count = stacks'[0].cycle_count,
                               ![0].wait_time = stacks'[0].wait_time]
          /\ Off(stacks[0]) => stacks' = stacks]_vars

\* a stack has just been switched off for the second time, this time part
\* of the way through its wait
C23_Witness ==
    /\ last.op = "turn_off"
    /\ Off(stacks[0])
    /\ stacks[0].cycle_count = 2
    /\ stacks[0].turn_off_time = stacks[0].time
    /\ stacks[0].turn_off_time > stacks[0].turn_on_time
    /\ stacks[0].wait_time > 0

(***************************************************************************)
(* C24.  In a run(power_in) step during which the stack is Waiting, all of *)
(* the requested power is reported as unconsumed (the returned power_left  *)
(* is power_in), while uptime grows by dt and the degradation is updated   *)
(* as for an On stack.                                                     *)
(***************************************************************************)
C24_WaitingRun ==
    [][(last'.op = "run" /\ stacks'[0].stack_waiting) =>
          /\ last'.power_left = last'.P_in
          /\ stacks'[0].uptime = stacks[0].uptime + stacks[0].dt
          /\ stacks'[0].V_degradation
               = stacks'[0].d_s + stacks'[0].d_o + stacks'[0].fatigue_history]_vars

C26_OnOffDegradation ==
    last.op = "run" =>
        /\ stacks[0].d_o = stacks[0].rate_onoff * stacks[0].cycle_count
        /\ stacks[0].V_degradation
             = stacks[0].d_s + stacks[0].d_f + stacks[0].d_o

(***************************************************************************)
(* C27.  After any sequence of run / turn_on / turn_off a stack is in      *)
(* exactly one of the modes Off, Waiting, On (stack_on and stack_waiting   *)
(* are never both true); it never moves from On to Waiting without an      *)
(* intervening turn_off, and it leaves Off only by a turn_on.              *)
(***************************************************************************)
C27_Modes ==
    [][/\ ~(stacks[0].stack_on /\ stacks[0].stack_waiting)
       /\ ~(stacks'[0].stack_on /\ stacks'[0].stack_waiting)
       /\ stacks[0].stack_on => ~stacks'[0].stack_waiting
       /\ (Off(stacks[0]) /\ ~Off(stacks'[0])) => last'.op = "turn_on"]_vars

\* a stack that is On has been given turn_on and is still On, not Waiting
C27_Witness ==
    /\ last.op = "turn_on"
    /\ stacks[0].stack_on
    /\ ~stacks[0].stack_waiting
    /\ stacks[0].uptime > stacks[0].dt

(***************************************************************************)
(* C28.  After any sequence of run / turn_on / turn_off,                   *)
(* 0 <= wait_time <= turn_on_delay, and turn_on_time >= turn_off_time      *)
(* whenever the stack is Waiting or On; so a stack given turn_on and no    *)
(* later turn_off is On by the first run() that begins turn_on_delay or    *)
(* more after that turn_on: a stack still Waiting at the end of a run()    *)
(* began that run() less than turn_on_delay after its turn_on.             *)
(***************************************************************************)
C28_WaitBounds ==
    /\ stacks[0].wait_time >= 0
    /\ stacks[0].wait_time <= stacks[0].turn_on_delay
    /\ ~Off(stacks[0]) => stacks[0].turn_on_time >= stacks[0].turn_off_time
    /\ (last.op = "run" /\ stacks[0].stack_waiting) =>
          stacks[0].time - stacks[0].dt
             < stacks[0].turn_on_time + stacks[0].turn_on_delay

\* a stack restarted after a switch-off, with the full delay to wait, has
\* turned On in the run() that began exactly turn_on_delay after turn_on
C28_Witness ==
    /\ last.op = "run"
    /\ stacks[0].stack_on
    /\ stacks[0].cycle_count > 0
    /\ stacks[0].turn_on_delay > 0
    /\ stacks[0].wait_time = stacks[0].turn_on_delay
    /\ stacks[0].time - stacks[0].dt
         = stacks[0].turn_on_time + stacks[0].turn_on_delay
    /\ stacks[0].turn_on_time > stacks[0].turn_off_time

(***************************************************************************)
(* C29.  turn_on is idempotent on a stack that is already Waiting: issued  *)
(* again it leaves the mode, turn_on_time and wait_time unchanged, so it   *)
(* never postpones the moment the stack becomes On.                        *)
(***************************************************************************)
C29_TurnOnIdempotent ==
    [][(last'.op = "turn_on" /\ stacks[0].stack_waiting) =>
          /\ stacks'[0].stack_waiting /\ ~stacks'[0].stack_on
          /\ stacks'[0].turn_on_time = stacks[0].turn_on_time
          /\ stacks'[0].wait_time = stacks[0].wait_time]_vars

(***************************************************************************)
(* C30.  Under every policy, after any sequence of control(power_in) calls *)
(* with power_in >= 0, the power a call allocates to each stack is a       *)
(* defined number between 0 and the stack rating inclusive.                *)
(***************************************************************************)
C30_AllocationInRange ==
    Returned =>
        \A i \in Idx :
            /\ ~IsNaN(last.stack_power[i])
            /\ last.stack_power[i] >= 0
            /\ last.stack_power[i] <= stack_rating

(***************************************************************************)
(* C31.  Under each of the five degradation-based policies, after any      *)
(* sequence of control(power_in) calls with power_in >= 0, the sum of the  *)
(* power a call allocates to all stacks does not exceed power_in.          *)
(***************************************************************************)
C31_AllocationWithinInput ==
    (Returned /\ sup.control_type \in DegTypes) =>
        /\ \A i \in Idx : ~IsNaN(last.stack_power[i])
        /\ SumOver(last.stack_power, Idx) <= last.power_in

\* the number of active and waiting stacks by which power_sharing_rotation
\* divides power_in for the allocation it returns
ShareDivisor(power_in) ==
    ActivePlusWaiting(power_sharing_rotation(sup, stacks, power_in).sup)

(***************************************************************************)
(* C32.  Under the power-sharing rotation policy, whenever a control call  *)
(* computes the per-stack share power_in / (number of active and waiting   *)
(* stacks) for the allocation it returns, at least one stack is active or  *)
(* waiting: the division is never by zero.                                 *)
(***************************************************************************)
C32_NoDivisionByZero ==
    [][(sup.control_type = "power sharing rotation"
          /\ last'.op = "control" /\ ~last'.fault)
          => ShareDivisor(last'.power_in) > 0]_vars

C35_MassIsFlowTimesDt ==
    last.op = "run" => last.H2_mass_out = last.H2_mfr * stacks[0].dt

=============================================================================
